---- MODULE Spec2Model ----
(***************************************************************************)
(* A model of the docstring-to-TSX documentation generator:                *)
(*   - utils/shared.py: the package walk, the grouping of modules by file, *)
(*     the output path resolution and the per-file processing loop;        *)
(*   - docstring_2tsx/converter.py: member records and their serialization.*)
(* Python strings are sequences of one-character strings, so that split,   *)
(* join, len and startswith are computed and not assumed.                  *)
(***************************************************************************)
EXTENDS Integers, Sequences, FiniteSets, TLC

\* ------------------------------------------------------------------ bounds
\* The number of exceptions the environment may raise in one run.
MaxFailures == 1

\* ----------------------------------------------------------------- strings
\* Python's None, where a string is expected (no string holds this element).
None == <<"<None>">>

\* Python truthiness of an optional string: None and "" are falsy.
Truthy(s) == s # None /\ s # <<>>

RECURSIVE SplitFrom(_, _, _)
SplitFrom(s, sep, cur) ==
    IF s = <<>> THEN <<cur>>
    ELSE IF Head(s) = sep THEN <<cur>> \o SplitFrom(Tail(s), sep, <<>>)
    ELSE SplitFrom(Tail(s), sep, Append(cur, Head(s)))

\* str.split(sep): "a..b" gives ["a", "", "b"], "" gives [""].
split(s, sep) == SplitFrom(s, sep, <<>>)

RECURSIVE join(_, _)
\* sep.join(parts)
join(parts, sep) ==
    IF parts = <<>> THEN <<>>
    ELSE IF Len(parts) = 1 THEN parts[1]
    ELSE parts[1] \o <<sep>> \o join(Tail(parts), sep)

\* str.startswith(c) for a one-character prefix.
startswith(s, c) == s # <<>> /\ s[1] = c

\* str.endswith(suffix)
endswith(s, suffix) ==
    /\ Len(s) >= Len(suffix)
    /\ SubSeq(s, Len(s) - Len(suffix) + 1, Len(s)) = suffix

\* str.rfind(c), 1-based, 0 when absent.
rfind(s, c) ==
    LET hits == {i \in 1..Len(s) : s[i] = c}
    IN IF hits = {} THEN 0 ELSE CHOOSE i \in hits : \A j \in hits : j <= i

\* pathlib: the components of a path given as a string ("" and "." vanish).
PathParts(s) == SelectSeq(split(s, "/"), LAMBDA c : c # <<>> /\ c # <<".">>)

\* pathlib: path / s, a path being the sequence of its components below the
\* root. An absolute s replaces the path.
PathDiv(path, s) ==
    IF startswith(s, "/") THEN PathParts(s) ELSE path \o PathParts(s)

\* pathlib: Path(file_path).stem, the final component without its last suffix.
PathStem(file_path) ==
    LET parts == PathParts(file_path)
        name == IF parts = <<>> THEN <<>> ELSE parts[Len(parts)]
        i == rfind(name, ".")
    IN IF i > 1 /\ i < Len(name) THEN SubSeq(name, 1, i - 1) ELSE name

\* ------------------------------------------------------- the package on disk
pkg == <<"p", "k", "g">>
sub == <<"s", "u", "b">>
mod == <<"m", "o", "d">>
ext == <<"e", "x", "t">>
dunder_init == <<"_", "_", "i", "n", "i", "t", "_", "_">>
private_p == <<"_", "p">>
py == <<".", "p", "y">>
abi3_so == <<".", "a", "b", "i", "3", ".", "s", "o">>
page_tsx == <<"p", "a", "g", "e", ".", "t", "s", "x">>
lib == <<"/", "l", "i", "b">>

Dotted(segs) == join(segs, ".")
FilePath(segs) == lib \o <<"/">> \o join(segs, "/")

N_pkg == Dotted(<<pkg>>)
N_a == Dotted(<<pkg, <<"a">>>>)
N_b == Dotted(<<pkg, <<"b">>>>)
N_m == Dotted(<<pkg, <<"m">>>>)
N_p == Dotted(<<pkg, private_p>>)
N_ext == Dotted(<<pkg, ext>>)
N_sub == Dotted(<<pkg, sub>>)
N_sub_a == Dotted(<<pkg, sub, <<"a">>>>)
N_sub_mod == Dotted(<<pkg, sub, mod>>)
N_init == Dotted(<<pkg, dunder_init>>)
N_init_a == Dotted(<<pkg, dunder_init, <<"a">>>>)

\* The output root of the run, Path("/out").
OutputRoot == <<<<"o", "u", "t">>>>

\* What the run is given: the shape of the root package ("nofile": a module
\* without a __file__ attribute, "namespace": a package whose __file__ is None),
\* of its subpackage ("broken": its import raises ImportError), whether a
\* directory of the package is itself named __init__, and which names the
\* import system resolves to the module object of another name ("tie": pkg.b
\* is pkg.a's module, "short": pkg.m is pkg.ext's module), and whether the
\* body of pkg/a.py raises when it is imported.
RootKinds == {"package", "module", "namespace", "nofile", "importfail"}
SubKinds == {"package", "namespace", "broken"}
AliasKinds == {"none", "tie", "short"}
AKinds == {"module", "crashing"}
Worlds ==
    [root : RootKinds, sub : SubKinds, initDir : BOOLEAN, alias : AliasKinds,
     a : AKinds]

\* importlib.import_module(name): the module object (named by its __name__)
\* that sys.modules holds for name, or the exception the import raises: an
\* ImportError, or whatever the body of the module raises (a RuntimeError).
import_module(w, name) ==
    IF name = N_pkg /\ w.root = "importfail"
    THEN [ok |-> FALSE, module |-> None, raised |-> "ImportError"]
    ELSE IF name = N_sub /\ w.sub = "broken"
    THEN [ok |-> FALSE, module |-> None, raised |-> "ImportError"]
    ELSE IF name = N_a /\ w.a = "crashing"
    THEN [ok |-> FALSE, module |-> None, raised |-> "RuntimeError"]
    ELSE IF name = N_b /\ w.alias = "tie"
    THEN [ok |-> TRUE, module |-> N_a, raised |-> "none"]
    ELSE IF name = N_m /\ w.alias = "short"
    THEN [ok |-> TRUE, module |-> N_ext, raised |-> "none"]
    ELSE [ok |-> TRUE, module |-> name, raised |-> "none"]

\* hasattr(module, "__file__")
has_file_attr(w, m) == ~(m = N_pkg /\ w.root = "nofile")

\* module.__file__ (None for a namespace package)
file_of(w, m) ==
    IF m = N_pkg THEN
        (IF w.root = "module" THEN FilePath(<<pkg \o py>>)
         ELSE IF w.root = "package" THEN FilePath(<<pkg, dunder_init \o py>>)
         ELSE None)
    ELSE IF m = N_sub THEN
        (IF w.sub = "namespace" THEN None ELSE FilePath(<<pkg, sub, dunder_init \o py>>))
    ELSE IF m = N_init THEN FilePath(<<pkg, dunder_init, dunder_init \o py>>)
    ELSE IF m = N_ext THEN FilePath(<<pkg, ext \o abi3_so>>)
    ELSE IF m = N_sub_mod THEN FilePath(<<pkg, sub, mod \o py>>)
    ELSE IF m = N_init_a THEN FilePath(<<pkg, dunder_init, <<"a">> \o py>>)
    ELSE IF m = N_p THEN FilePath(<<pkg, private_p \o py>>)
    ELSE IF m = N_sub_a THEN FilePath(<<pkg, sub, <<"a">> \o py>>)
    ELSE IF m = N_a THEN FilePath(<<pkg, <<"a">> \o py>>)
    ELSE None

\* hasattr(module, "__path__"): the module is a package.
has_path(w, m) ==
    \/ m = N_pkg /\ w.root \in {"package", "namespace"}
    \/ m \in {N_sub, N_init}

\* pkgutil.iter_modules(module.__path__, prefix): the (name, is_pkg) pairs of
\* the directory, in the order of the sorted file names.
iter_modules(w, m, prefix) ==
    LET item(seg, p) == [module_name |-> prefix \o seg, is_pkg |-> p]
    IN IF m = N_pkg THEN
           (IF w.initDir THEN <<item(dunder_init, TRUE)>> ELSE <<>>)
           \o <<item(private_p, FALSE), item(<<"a">>, FALSE)>>
           \o (IF w.alias = "tie" THEN <<item(<<"b">>, FALSE)>> ELSE <<>>)
           \o <<item(ext, FALSE)>>
           \o (IF w.alias = "short" THEN <<item(<<"m">>, FALSE)>> ELSE <<>>)
           \o <<item(sub, TRUE)>>
       ELSE IF m = N_sub THEN <<item(<<"a">>, FALSE), item(mod, FALSE)>>
       ELSE IF m = N_init THEN <<item(<<"a">>, FALSE)>>
       ELSE <<>>

\* ------------------------------------------------------------------ state
VARIABLES
    world,               \* the package the run is pointed at
    exclude_private,     \* config.exclude_private
    pc,                  \* where package_to_structure stands
    modules_to_process,  \* collect_package_modules: the list it returns
    modules_to_explore,  \* collect_package_modules: the queue
    explored_modules,    \* collect_package_modules: the names already expanded
    module_groups,       \* the file groups the loop has still to process
    files,               \* the output tree: the pages written, {[path, content]}
    log,                 \* the records the logger received
    handled,             \* history: one record per call of process_module_file
    failures             \* the exceptions raised by the environment so far

runVars == <<world, exclude_private, pc, modules_to_process, modules_to_explore,
             explored_modules, module_groups, files, log, handled, failures>>

VARIABLES
    text_in,     \* the text handed to the renderer's helper (None when absent)
    section,     \* the section name handed to format_section_content
    text_out,    \* what the helper returned
    tpc          \* which helper has run

textVars == <<text_in, section, text_out, tpc>>

VARIABLES
    module_ns,     \* the names bound in the namespace of the module converted
    module_file,   \* its __file__
    module_doc,    \* what the parser makes of its docstring
    cpc,           \* where file_to_tsx stands
    classes,       \* collect_module_members: the classes, as (name, obj) names
    functions,     \* collect_module_members: the functions
    documentable,  \* what has_documentable_members answered ("unknown" before)
    to_convert,    \* file_to_tsx: the sorted members still to convert
    members_data,  \* file_to_tsx: the records built, each with its object
    page           \* the fields of the JSON payload of the page

convertVars == <<module_ns, module_file, module_doc, cpc, classes, functions,
                 documentable, to_convert, members_data, page>>

VARIABLES
    sig_obj,     \* the class or function handed to the signature extractor
    sig_params,  \* what get_signature_params returned (None before the call)
    sig_text,    \* what format_signature(obj) returned (None before the call)
    spc          \* whether the extractor is at work

sigVars == <<sig_obj, sig_params, sig_text, spc>>

\* What an action of the package run leaves alone.
otherThanRun == <<textVars, convertVars, sigVars>>

\* What an action of the text helpers leaves alone.
otherThanText == <<runVars, convertVars, sigVars>>

\* What an action of the converter leaves alone.
otherThanConvert == <<runVars, textVars, sigVars>>

\* What an action of the signature extractor leaves alone.
otherThanSignature == <<runVars, textVars, convertVars>>

\* ------------------------------------------------------------ utils/shared.py
\* collect_package_modules, the filter of line 95.
is_private_name(module_name) ==
    LET parts == split(module_name, ".")
    IN \E i \in 1..Len(parts) : startswith(parts[i], "_")

\* collect_package_modules, the except clause of line 106.
ImportExceptions == {"ImportError", "AttributeError"}

RECURSIVE scan_modules(_, _, _, _, _)
\* collect_package_modules, the for loop over one package's iter_modules; an
\* import that raises anything but ImportExceptions ends it, and the function.
scan_modules(w, xp, items, to_process, to_explore) ==
    IF items = <<>>
    THEN [process |-> to_process, explore |-> to_explore, raised |-> "none"]
    ELSE
        LET it == Head(items)
            imp == import_module(w, it.module_name)
            entry == [module |-> imp.module, module_name |-> it.module_name]
            located == /\ imp.ok
                       /\ has_file_attr(w, imp.module)
                       /\ Truthy(file_of(w, imp.module))
        IN IF xp /\ is_private_name(it.module_name)
           THEN scan_modules(w, xp, Tail(items), to_process, to_explore)
           ELSE IF ~imp.ok /\ imp.raised \notin ImportExceptions
           THEN [process |-> to_process, explore |-> to_explore,
                 raised |-> imp.raised]
           ELSE IF ~located
           THEN scan_modules(w, xp, Tail(items), to_process, to_explore)
           ELSE scan_modules(w, xp, Tail(items), Append(to_process, entry),
                             IF it.is_pkg THEN Append(to_explore, entry)
                             ELSE to_explore)

RECURSIVE group_from(_, _, _)
group_from(w, modules, groups) ==
    IF modules = <<>> THEN groups
    ELSE
        LET e == Head(modules)
            f == file_of(w, e.module)
            at == {i \in 1..Len(groups) : groups[i].file_path = f}
        IN IF ~(has_file_attr(w, e.module) /\ Truthy(f))
           THEN group_from(w, Tail(modules), groups)
           ELSE IF at = {}
           THEN group_from(w, Tail(modules),
                           Append(groups, [file_path |-> f, modules |-> <<e>>]))
           ELSE group_from(w, Tail(modules),
                           [groups EXCEPT ![CHOOSE i \in at : TRUE].modules =
                                Append(@, e)])

\* group_modules_by_file: the dict, as the sequence of its items in insertion
\* order.
group_modules_by_file(w, modules) == group_from(w, modules, <<>>)

\* The first alias of the group, whatever its length.
min_by_len_first_entry(modules) == modules[1]

\* min(modules, key=lambda x: len(x[1])): the first entry of least key.
min_by_len(modules) ==
    LET least == CHOOSE i \in 1..Len(modules) :
            /\ \A j \in 1..Len(modules) :
                   Len(modules[i].module_name) <= Len(modules[j].module_name)
            /\ \A j \in 1..(i - 1) :
                   Len(modules[j].module_name) > Len(modules[i].module_name)
    IN modules[least]

\* build_output_dir with the leading package segment kept.
build_output_dir_keeping_package(output_dir, module_name, file_name) ==
    LET parts == split(module_name, ".")
        trimmed == IF parts[Len(parts)] = file_name
                   THEN SubSeq(parts, 1, Len(parts) - 1) ELSE parts
        simplified_path == SelectSeq(trimmed, LAMBDA part : part # dunder_init)
    IN PathDiv(PathDiv(output_dir, join(simplified_path, "/")), file_name)

\* build_output_dir with the directories of the module left out.
build_output_dir_flat(output_dir, module_name, file_name) ==
    PathDiv(output_dir, file_name)

\* build_output_dir
build_output_dir(output_dir, module_name, file_name) ==
    LET parts == split(module_name, ".")
        rest == Tail(parts)
        trimmed == IF rest # <<>> /\ rest[Len(rest)] = file_name
                   THEN SubSeq(rest, 1, Len(rest) - 1) ELSE rest
        simplified_path == SelectSeq(trimmed, LAMBDA part : part # dunder_init)
    IN IF Len(parts) > 1
       THEN PathDiv(PathDiv(output_dir, join(simplified_path, "/")), file_name)
       ELSE PathDiv(output_dir, file_name)

\* The exceptions process_module_file catches (line 257).
CaughtExceptions == {"ImportError", "AttributeError", "OSError", "ValueError"}

\* What the environment can do to one call: nothing, or raise at one of the
\* calls of the try block.
NoFault == [at |-> "nowhere", exc |-> "none"]
Faults == {[at |-> "mkdir", exc |-> "OSError"],
           [at |-> "converter", exc |-> "ValueError"],
           [at |-> "converter", exc |-> "TypeError"],
           [at |-> "write_text", exc |-> "OSError"]}

NoPath == <<>>

\* process_module_file: what one call does, given what the environment does to
\* it. ret is its return value, raised the exception that leaves it, logged
\* whether it logged the failure, calls the converter invocations it made,
\* path the page it wrote (NoPath when it wrote none).
process_module_file(file_path, modules, output_dir, fault) ==
    LET file_name == PathStem(file_path)
        chosen == min_by_len(modules)
        out_dir == build_output_dir(output_dir, chosen.module_name, file_name)
        output_file == PathDiv(out_dir, page_tsx)
        call == [module |-> chosen.module, module_name |-> chosen.module_name]
        base == [file_path |-> file_path, modules |-> modules,
                 file_name |-> file_name,
                 ret |-> FALSE, raised |-> "none", logged |-> FALSE,
                 calls |-> <<>>, path |-> NoPath]
        failed(r) == IF fault.exc \in CaughtExceptions
                     THEN [r EXCEPT !.logged = TRUE]
                     ELSE [r EXCEPT !.raised = fault.exc]
    IN IF file_name = dunder_init THEN base
       ELSE IF fault.at = "mkdir" THEN failed(base)
       ELSE IF fault.at = "converter" THEN failed([base EXCEPT !.calls = <<call>>])
       ELSE IF fault.at = "write_text" THEN failed([base EXCEPT !.calls = <<call>>])
       ELSE [base EXCEPT !.calls = <<call>>, !.path = output_file, !.ret = TRUE]

\* package_to_structure, lines 270-273 and the start of collect_package_modules
\* (lines 74-82).
ImportPackage ==
    /\ pc = "start"
    /\ LET imp == import_module(world, N_pkg)
           root == [module |-> imp.module, module_name |-> N_pkg]
       IN IF ~imp.ok
          THEN /\ log' = Append(log, [call |-> "exception", about |-> N_pkg])
               /\ pc' = "done"
               /\ UNCHANGED <<modules_to_process, modules_to_explore>>
          ELSE IF ~has_file_attr(world, imp.module)
          THEN /\ log' = Append(log, [call |-> "error", about |-> N_pkg])
               /\ pc' = "done"
               /\ UNCHANGED <<modules_to_process, modules_to_explore>>
          ELSE /\ modules_to_process' =
                      IF Truthy(file_of(world, imp.module)) THEN <<root>> ELSE <<>>
               /\ modules_to_explore' = <<root>>
               /\ pc' = "collect"
               /\ UNCHANGED log
    /\ UNCHANGED <<world, exclude_private, explored_modules, module_groups,
                   files, handled, failures>>
    /\ UNCHANGED otherThanRun

\* collect_package_modules, one turn of the while loop (lines 84-107); an
\* exception that leaves it is handled by package_to_structure, line 299.
Explore ==
    /\ pc = "collect"
    /\ modules_to_explore # <<>>
    /\ LET cur == Head(modules_to_explore)
           rest == Tail(modules_to_explore)
       IN IF cur.module_name \in explored_modules
          THEN /\ modules_to_explore' = rest
               /\ UNCHANGED <<modules_to_process, explored_modules, pc, log>>
          ELSE /\ explored_modules' = explored_modules \cup {cur.module_name}
               /\ IF ~has_path(world, cur.module)
                  THEN /\ modules_to_explore' = rest
                       /\ UNCHANGED <<modules_to_process, pc, log>>
                  ELSE LET r == scan_modules(world, exclude_private,
                                    iter_modules(world, cur.module,
                                                 cur.module_name \o <<".">>),
                                    modules_to_process, rest)
                       IN /\ modules_to_process' = r.process
                          /\ modules_to_explore' = r.explore
                          /\ pc' = IF r.raised = "none" THEN "collect"
                                   ELSE "done"
                          /\ log' = IF r.raised = "none" THEN log
                                    ELSE Append(log, [call |-> "exception",
                                                      about |-> N_pkg])
    /\ UNCHANGED <<world, exclude_private, module_groups, files, handled,
                   failures>>
    /\ UNCHANGED otherThanRun

\* package_to_structure, line 283, once the queue is empty.
Group ==
    /\ pc = "collect"
    /\ modules_to_explore = <<>>
    /\ module_groups' = group_modules_by_file(world, modules_to_process)
    /\ pc' = "process"
    /\ UNCHANGED <<world, exclude_private, modules_to_process, modules_to_explore,
                   explored_modules, files, log, handled, failures>>
    /\ UNCHANGED otherThanRun

\* package_to_structure, one turn of the for loop (lines 287-297); an exception
\* that leaves process_module_file ends the loop in the handler of line 299.
ProcessFile ==
    /\ pc = "process"
    /\ module_groups # <<>>
    /\ \E fault \in {NoFault} \cup (IF failures < MaxFailures THEN Faults ELSE {}) :
         LET g == Head(module_groups)
             r == process_module_file(g.file_path, g.modules, OutputRoot, fault)
             raised == r.raised # "none"
         IN /\ handled' = Append(handled, r)
            /\ failures' = IF r.logged \/ raised THEN failures + 1 ELSE failures
            /\ files' = IF r.path = NoPath THEN files
                        ELSE {f \in files : f.path # r.path}
                             \cup {[path |-> r.path, content |-> r.calls[1]]}
            /\ log' = IF r.logged
                      THEN Append(log, [call |-> "exception", about |-> g.file_path])
                      ELSE IF raised
                      THEN Append(log, [call |-> "exception", about |-> N_pkg])
                      ELSE log
            /\ module_groups' = Tail(module_groups)
            /\ pc' = IF raised THEN "done" ELSE "process"
    /\ UNCHANGED <<world, exclude_private, modules_to_process, modules_to_explore,
                   explored_modules>>
    /\ UNCHANGED otherThanRun

\* package_to_structure returns once the loop is over.
Finish ==
    /\ pc = "process"
    /\ module_groups = <<>>
    /\ pc' = "done"
    /\ UNCHANGED <<world, exclude_private, modules_to_process, modules_to_explore,
                   explored_modules, module_groups, files, log, handled, failures>>
    /\ UNCHANGED otherThanRun

RunInit ==
    /\ world \in Worlds
    /\ exclude_private \in BOOLEAN
    /\ pc = "start"
    /\ modules_to_process = <<>>
    /\ modules_to_explore = <<>>
    /\ explored_modules = {}
    /\ module_groups = <<>>
    /\ files = {}
    /\ log = <<>>
    /\ handled = <<>>
    /\ failures = 0

RunNext == ImportPackage \/ Explore \/ Group \/ ProcessFile \/ Finish

\* ------------------------------------------- the Markdown (MDX) renderer
\* The longest text enumerated.
MaxTextLen == 3

\* The character ` (a string of the module cannot hold it).
backtick == "<backtick>"

Alphabet == {"<", ">", "=", "\\", "a", "\n"}
BoundedTexts == UNION {[1..n -> Alphabet] : n \in 0..MaxTextLen}

\* The inputs and expected outputs of test_escape_mdx_special_chars.
EscapeTests ==
    {[input |-> <<"t", "e", "x", "t", " ", "w", "i", "t", "h", " ", "<", "a", "n", "g", "l", "e", ">", " ", "b", "r", "a", "c", "k", "e", "t", "s">>,
      expected |-> <<"t", "e", "x", "t", " ", "w", "i", "t", "h", " ", "\\", "<", "a", "n", "g", "l", "e", "\\", ">", " ", "b", "r", "a", "c", "k", "e", "t", "s">>],
     [input |-> <<"p", "a", "r", "a", "m", "=", "v", "a", "l", "u", "e">>, expected |-> <<"p", "a", "r", "a", "m", "\\", "=", "v", "a", "l", "u", "e">>],
     [input |-> <<"n", "o", "r", "m", "a", "l", " ", "t", "e", "x", "t">>, expected |-> <<"n", "o", "r", "m", "a", "l", " ", "t", "e", "x", "t">>],
     [input |-> <<"m", "u", "l", "t", "i", "p", "l", "e", " ", "<", "=", " ", "s", "i", "g", "n", "s", " ", "=", ">">>,
      expected |-> <<"m", "u", "l", "t", "i", "p", "l", "e", " ", "\\", "<", "\\", "=", " ", "s", "i", "g", "n", "s", " ", "\\", "=", "\\", ">">>],
     [input |-> <<>>, expected |-> <<>>],
     [input |-> None, expected |-> None]}

\* The sections, contents and expected fragments of test_format_section_content.
Examples == <<"E", "x", "a", "m", "p", "l", "e", "s">>
Returns == <<"R", "e", "t", "u", "r", "n", "s">>
Notes == <<"N", "o", "t", "e", "s">>
FormatTests ==
    {[section |-> Examples, content |-> <<">", ">", ">", " ", "a", " ", "=", " ", "1", "\n", ">", ">", ">", " ", "p", "r", "i", "n", "t", "(", "a", ")">>,
      fragment |-> <<backtick, backtick, backtick, "p", "y", "t", "h", "o", "n">>],
     [section |-> Returns,
      content |-> <<"[", "{", "'", "t", "y", "p", "e", "'", ":", " ", "'", "d", "i", "c", "t", "<", "s", "t", "r", ",", " ", "a", "n", "y", ">", "'", ",", " ", "'", "d", "e", "s", "c", "'", ":", " ", "'", "s", "o", "m", "e", " ", "i", "n", "f", "o", "'", "}", "]">>,
      fragment |-> <<backtick, backtick, backtick, "\n", "[">>],
     [section |-> Notes,
      content |-> <<"T", "h", "i", "s", " ", "i", "s", " ", "a", " ", "n", "o", "t", "e", " ", "w", "i", "t", "h", " ", "<", "s", "p", "e", "c", "i", "a", "l", ">", " ", "c", "h", "a", "r", "s">>,
      fragment |-> <<backtick, backtick, backtick, "\n", "T", "h", "i", "s", " ", "i", "s", " ", "a", " ", "n", "o", "t", "e">>]}

SectionNames == {Examples, Returns, Notes, <<"e", "x", "a", "m", "p", "l", "e", "s">>}

RECURSIVE replace(_, _, _)
\* str.replace(old, new) for a one-character old.
replace(s, old, new) ==
    IF s = <<>> THEN <<>>
    ELSE (IF Head(s) = old THEN new ELSE <<Head(s)>>) \o replace(Tail(s), old, new)

\* escape_special with the replacement of "=" left out.
escape_special_without_equals(text) ==
    IF ~Truthy(text) THEN text
    ELSE replace(replace(text, "<", <<"\\", "<">>), ">", <<"\\", ">">>)

\* escape_special (_escape_mdx_special_chars): absent text comes back as it
\* is, then one replacement pass per special character.
escape_special(text) ==
    IF ~Truthy(text) THEN text
    ELSE replace(replace(replace(text, "<", <<"\\", "<">>), ">", <<"\\", ">">>),
                 "=", <<"\\", "=">>)

fence == <<backtick, backtick, backtick>>
python == <<"p", "y", "t", "h", "o", "n">>

\* format_section_content with every opening fence tagged python.
format_section_content_always_tagged(name, content) ==
    fence \o python \o <<"\n">> \o content \o <<"\n">> \o fence

\* format_section_content: the content between two fences, the opening one
\* tagged python for an Examples section.
format_section_content(name, content) ==
    (IF name = Examples THEN fence \o python ELSE fence)
    \o <<"\n">> \o content \o <<"\n">> \o fence

EscapeText ==
    /\ tpc = "input"
    /\ text_out' = escape_special(text_in)
    /\ tpc' = "escaped"
    /\ UNCHANGED <<text_in, section>>
    /\ UNCHANGED otherThanText

\* The escaped text is escaped a second time.
EscapeAgain ==
    /\ tpc = "escaped"
    /\ text_out' = escape_special(text_out)
    /\ tpc' = "escaped twice"
    /\ UNCHANGED <<text_in, section>>
    /\ UNCHANGED otherThanText

FormatSection ==
    /\ tpc = "input"
    /\ text_in # None
    /\ \E name \in SectionNames :
         /\ section' = name
         /\ text_out' = format_section_content(name, text_in)
    /\ tpc' = "formatted"
    /\ UNCHANGED text_in
    /\ UNCHANGED otherThanText

TextInit ==
    /\ text_in \in BoundedTexts \cup {t.input : t \in EscapeTests}
                   \cup {t.content : t \in FormatTests}
    /\ section = None
    /\ text_out = None
    /\ tpc = "input"

TextIdle == text_in = None /\ section = None /\ text_out = None /\ tpc = "idle"

TextNext == EscapeText \/ EscapeAgain \/ FormatSection

\* ------------------------------------------------------- the TSX converter
\* The module converted is pkg.a; the objects its namespace can bind.
Foo == <<"F", "o", "o">>
Hidden == <<"_", "H", "i", "d", "d", "e", "n">>
bar == <<"b", "a", "r">>
imported == <<"i", "m", "p", "o", "r", "t", "e", "d">>
CONST == <<"C", "O", "N", "S", "T">>
inst == <<"i", "n", "s", "t">>
MemberNames == {Foo, Hidden, bar, imported, CONST, inst}

\* inspect.isclass(obj), inspect.isfunction(obj)
isclass(name) == name \in {Foo, Hidden}
isfunction(name) == name \in {bar, imported}

\* hasattr(obj, "__module__"): an int constant has none; an instance has its
\* class's.
has_module_attr(name) == name # CONST

\* obj.__module__
module_of(name) == IF name = imported THEN N_sub_a ELSE N_a

\* The code points of the characters of the member names.
Ord == [c \in {"C", "F", "H", "N", "O", "S", "T", "_", "a", "b", "d", "e", "i", "m", "n", "o", "p", "r", "s", "t"} |->
    IF c = "C" THEN 67 ELSE
    IF c = "F" THEN 70 ELSE
    IF c = "H" THEN 72 ELSE
    IF c = "N" THEN 78 ELSE
    IF c = "O" THEN 79 ELSE
    IF c = "S" THEN 83 ELSE
    IF c = "T" THEN 84 ELSE
    IF c = "_" THEN 95 ELSE
    IF c = "a" THEN 97 ELSE
    IF c = "b" THEN 98 ELSE
    IF c = "d" THEN 100 ELSE
    IF c = "e" THEN 101 ELSE
    IF c = "i" THEN 105 ELSE
    IF c = "m" THEN 109 ELSE
    IF c = "n" THEN 110 ELSE
    IF c = "o" THEN 111 ELSE
    IF c = "p" THEN 112 ELSE
    IF c = "r" THEN 114 ELSE
    IF c = "s" THEN 115 ELSE 116]

RECURSIVE str_less(_, _)
\* a < b on Python strings.
str_less(a, b) ==
    IF b = <<>> THEN FALSE
    ELSE IF a = <<>> THEN TRUE
    ELSE IF Head(a) # Head(b) THEN Ord[Head(a)] < Ord[Head(b)]
    ELSE str_less(Tail(a), Tail(b))

RECURSIVE sorted_set(_)
\* The names of a set in sorted order.
sorted_set(S) ==
    IF S = {} THEN <<>>
    ELSE LET least == CHOOSE x \in S : \A y \in S \ {x} : str_less(x, y)
         IN <<least>> \o sorted_set(S \ {least})

RECURSIVE seq_range(_)
seq_range(q) == IF q = <<>> THEN {} ELSE {Head(q)} \cup seq_range(Tail(q))

\* sorted(list)
sorted(q) == sorted_set(seq_range(q))

\* inspect.getmembers(module): the names bound, sorted.
getmembers(ns) == sorted_set(ns)

\* collect_module_members
collect_module_members(ns, module_name) ==
    LET members == getmembers(ns)
        kept(n) == /\ ~startswith(n, "_")
                   /\ has_module_attr(n)
                   /\ module_of(n) = module_name
    IN [classes |-> SelectSeq(members, LAMBDA n : kept(n) /\ isclass(n)),
        functions |-> SelectSeq(members, LAMBDA n :
                          kept(n) /\ ~isclass(n) /\ isfunction(n))]

\* has_documentable_members
has_documentable_members(ns, file, module_name, xp) ==
    IF Truthy(file) /\ endswith(file, dunder_init \o py) THEN FALSE
    ELSE \E n \in ns :
            /\ ~(xp /\ startswith(n, "_"))
            /\ isclass(n) \/ isfunction(n)
            /\ has_module_attr(n)
            /\ module_of(n) = module_name

\* inspect.signature(obj).parameters of the objects defined in the module:
\*   def bar(a: int, *args, b=1, **kw) -> str
\*   class Foo:    def __init__(self, x, y: str = 's')
\*   class _Hidden: def __init__(self)
Parameters(name) ==
    IF name = bar THEN
        <<[name |-> <<"a">>, kind |-> "POSITIONAL_OR_KEYWORD",
           annotation |-> <<"i", "n", "t">>, default |-> None],
          [name |-> <<"a", "r", "g", "s">>, kind |-> "VAR_POSITIONAL",
           annotation |-> None, default |-> None],
          [name |-> <<"b">>, kind |-> "KEYWORD_ONLY",
           annotation |-> None, default |-> <<"1">>],
          [name |-> <<"k", "w">>, kind |-> "VAR_KEYWORD",
           annotation |-> None, default |-> None]>>
    ELSE IF name = Foo THEN
        <<[name |-> <<"x">>, kind |-> "POSITIONAL_OR_KEYWORD",
           annotation |-> None, default |-> None],
          [name |-> <<"y">>, kind |-> "POSITIONAL_OR_KEYWORD",
           annotation |-> <<"s", "t", "r">>, default |-> <<"'", "s", "'">>]>>
    ELSE <<>>

ReturnAnnotation(name) == IF name = bar THEN <<"s", "t", "r">> ELSE None

\* What parse_google_docstring can make of a docstring: no section at all, an
\* empty Description, or a Description, an Args section (that documents, out
\* of signature order, b, a parameter zz that no signature has, a and y) and a
\* Returns section; or it raises.
DocVariants == {"empty", "blank", "full", "raises"}

parse_google_docstring(doc) ==
    IF doc = "full" THEN
        [raises |-> FALSE, has_description |-> TRUE, Description |-> <<"d", " ", "<", "b", ">", " ", "\"", "q", "\"">>,
         Args |-> <<[name |-> <<"b">>, type |-> None, description |-> <<"d", "b">>],
                    [name |-> <<"z", "z">>, type |-> <<"T">>, description |-> <<"d", "z">>],
                    [name |-> <<"a">>, type |-> <<"d", "i", "c", "t", "<", "s", "t", "r", ",", " ", "a", "n", "y", ">">>, description |-> <<"d", "a">>],
                    [name |-> <<"y">>, type |-> None, description |-> <<"d", "y">>]>>,
         sections |-> <<[name |-> Returns, content |-> <<"r">>]>>]
    ELSE [raises |-> doc = "raises", has_description |-> doc = "blank",
          Description |-> <<>>, Args |-> <<>>, sections |-> <<>>]

\* The objects class_to_data can be given: a member with what the environment
\* decides for it. inspect.signature raises ValueError for a class only.
Objects(name) ==
    [name : {name},
     signature : IF isclass(name) THEN {"ok", "ValueError"} ELSE {"ok"},
     parameters : {Parameters(name)},
     doc : DocVariants,
     has_source : BOOLEAN]

\* get_signature_params with the variadic parameters kept.
get_signature_params_keeping_variadic(obj) ==
    IF obj.signature = "ValueError" THEN <<>>
    ELSE [i \in 1..Len(obj.parameters) |-> obj.parameters[i].name]

\* get_signature_params with the keyword-only parameters removed as well.
get_signature_params_without_keyword_only(obj) ==
    IF obj.signature = "ValueError" THEN <<>>
    ELSE LET kept == SelectSeq(obj.parameters, LAMBDA q :
                         q.kind \notin {"VAR_POSITIONAL", "VAR_KEYWORD",
                                        "KEYWORD_ONLY"})
         IN [i \in 1..Len(kept) |-> kept[i].name]

\* get_signature_params
get_signature_params(obj) ==
    IF obj.signature = "ValueError" THEN <<>>
    ELSE LET kept == SelectSeq(obj.parameters, LAMBDA q :
                         q.kind \notin {"VAR_POSITIONAL", "VAR_KEYWORD"})
         IN [i \in 1..Len(kept) |-> kept[i].name]

\* class_to_data, lines 93-98: the parsed docstring, {} when the parser raises.
parsed_docstring(obj) ==
    LET parsed == parse_google_docstring(obj.doc)
    IN IF parsed.raises
       THEN [parsed EXCEPT !.has_description = FALSE, !.Args = <<>>,
                           !.sections = <<>>]
       ELSE parsed

\* process_description: the Description section, None without one.
process_description(parsed) ==
    IF parsed.has_description THEN parsed.Description ELSE None

\* The Parameter of one name of the signature: type and default from the
\* signature, description from the Args entry of that name, whose type, when
\* it has one, overrides the annotation.
reconcile_param(obj, parsed, param_name) ==
    LET sig == CHOOSE q \in seq_range(Parameters(obj.name)) : q.name = param_name
        docs == SelectSeq(parsed.Args, LAMBDA d : d.name = param_name)
    IN [name |-> param_name,
        type |-> IF docs # <<>> /\ Truthy(docs[1].type) THEN docs[1].type
                 ELSE sig.annotation,
        default |-> sig.default,
        description |-> IF docs # <<>> THEN docs[1].description ELSE None]

\* format_signature(obj, params): the name, one Parameter per name of params
\* and the return annotation.
format_signature(obj, params) ==
    [name |-> obj.name,
     params |-> [i \in 1..Len(params) |->
                    reconcile_param(obj, parsed_docstring(obj), params[i])],
     return_type |-> IF obj.signature = "ok" THEN ReturnAnnotation(obj.name)
                     ELSE None]

\* build_params_data(params, parsed)
build_params_data(obj, params, parsed) ==
    [i \in 1..Len(params) |-> reconcile_param(obj, parsed, params[i])]

\* format_section_data(section, content): None (here <<>>) for empty content.
format_section_data(sec) == IF sec.content = <<>> THEN <<>> ELSE <<sec>>

RECURSIVE other_sections(_)
\* class_to_data, lines 107-110
other_sections(secs) ==
    IF secs = <<>> THEN <<>>
    ELSE (IF Head(secs).name \notin {<<"D", "e", "s", "c", "r", "i", "p", "t", "i", "o", "n">>, <<"A", "r", "g", "s">>}
          THEN format_section_data(Head(secs)) ELSE <<>>)
         \o other_sections(Tail(secs))

\* get_source_line: co_firstlineno of a function, 1 for a class.
get_source_line(obj) == IF isfunction(obj.name) THEN 7 ELSE 1

\* get_source_code
get_source_code(obj) == IF obj.has_source THEN <<"d", "e", "f">> ELSE None

\* class_to_data: the dict, with the keys it holds in keys.
class_to_data(obj) ==
    LET params == get_signature_params(obj)
        signature_data == format_signature(obj, params)
        source_code == get_source_code(obj)
        parsed == parsed_docstring(obj)
        description == process_description(parsed)
        params_data == build_params_data(obj, params, parsed)
        sections == other_sections(parsed.sections)
    IN [keys |-> {"name", "type", "signature", "source_line"}
                 \cup (IF Truthy(description) THEN {"description"} ELSE {})
                 \cup (IF params_data # <<>> THEN {"params"} ELSE {})
                 \cup (IF sections # <<>> THEN {"sections"} ELSE {})
                 \cup (IF Truthy(source_code) THEN {"source_code"} ELSE {}),
        name |-> obj.name,
        type |-> IF isclass(obj.name) THEN <<"c", "l", "a", "s", "s">> ELSE <<"f", "u", "n", "c", "t", "i", "o", "n">>,
        signature |-> [name |-> signature_data.name,
                       params |-> [i \in 1..Len(signature_data.params) |->
                           [name |-> signature_data.params[i].name,
                            type |-> signature_data.params[i].type,
                            default |-> signature_data.params[i].default,
                            description |-> signature_data.params[i].description]],
                       return_type |-> signature_data.return_type],
        source_line |-> get_source_line(obj),
        description |-> description,
        params |-> params_data,
        sections |-> sections,
        source_code |-> source_code]

\* json.dumps of a str: quoted, with " and \ escaped.
json_string(v) ==
    <<"\"">>
    \o replace(replace(replace(v, "\\", <<"\\", "\\">>), "\"", <<"\\", "\"">>),
               "\n", <<"\\", "n">>)
    \o <<"\"">>

json_null == <<"n", "u", "l", "l">>

\* json.dumps of a str or None
json_optional(v) == IF v = None THEN json_null ELSE json_string(v)

\* json.dumps of a small int
json_int(n) == <<(<<"0", "1", "2", "3", "4", "5", "6", "7", "8", "9">>)[n + 1]>>

Field(m, part, index, key, json) ==
    [member |-> m, part |-> part, index |-> index, key |-> key, json |-> json]

\* json.dumps of the parameters of a list of a member.
json_params(m, part, params) ==
    UNION {{Field(m, part, i, "name", json_string(params[i].name)),
            Field(m, part, i, "type", json_optional(params[i].type)),
            Field(m, part, i, "default", json_optional(params[i].default)),
            Field(m, part, i, "description", json_optional(params[i].description))}
           : i \in 1..Len(params)}

\* json.dumps of one member_data: a field per key the dict holds.
json_member(m, d) ==
    {Field(m, "member", 0, "name", json_string(d.name)),
     Field(m, "member", 0, "type", json_string(d.type)),
     Field(m, "signature", 0, "name", json_string(d.signature.name)),
     Field(m, "signature", 0, "return_type", json_optional(d.signature.return_type)),
     Field(m, "member", 0, "source_line", json_int(d.source_line))}
    \cup json_params(m, "signature.params", d.signature.params)
    \cup (IF "description" \in d.keys
          THEN {Field(m, "member", 0, "description", json_optional(d.description))}
          ELSE {})
    \cup (IF "params" \in d.keys THEN json_params(m, "params", d.params) ELSE {})
    \cup (IF "sections" \in d.keys
          THEN UNION {{Field(m, "sections", i, "name", json_string(d.sections[i].name)),
                       Field(m, "sections", i, "content",
                             json_string(d.sections[i].content))}
                      : i \in 1..Len(d.sections)}
          ELSE {})
    \cup (IF "source_code" \in d.keys
          THEN {Field(m, "member", 0, "source_code", json_optional(d.source_code))}
          ELSE {})

\* file_to_tsx, lines 165-172: the module's description, None when the parser
\* raises.
module_description(doc) ==
    LET parsed == parse_google_docstring(doc)
    IN IF parsed.raises THEN None ELSE process_description(parsed)

\* file_to_tsx, lines 175-182: json.dumps(module_data)
json_module(module_name, description, records) ==
    {Field(0, "module", 0, "moduleName", json_string(module_name)),
     Field(0, "module", 0, "description", json_optional(description))}
    \cup UNION {json_member(m, records[m].data) : m \in 1..Len(records)}

\* file_to_tsx, line 156, and the sort of line 160.
CollectMembers ==
    /\ cpc = "start"
    /\ LET r == collect_module_members(module_ns, N_a)
       IN /\ classes' = r.classes
          /\ functions' = r.functions
          /\ to_convert' = sorted(r.classes \o r.functions)
    /\ cpc' = "members"
    /\ UNCHANGED <<module_ns, module_file, module_doc, documentable,
                   members_data, page, exclude_private>>
    /\ UNCHANGED otherThanConvert

\* has_documentable_members(module, exclude_private=config's)
CheckDocumentable ==
    /\ cpc = "start"
    /\ documentable = "unknown"
    /\ documentable' = IF has_documentable_members(module_ns, module_file, N_a,
                                                   exclude_private)
                       THEN "yes" ELSE "no"
    /\ UNCHANGED <<module_ns, module_file, module_doc, cpc, classes, functions,
                   to_convert, members_data, page, exclude_private>>
    /\ UNCHANGED otherThanConvert

\* file_to_tsx, one turn of the loop of lines 160-163.
ConvertMember ==
    /\ cpc = "members"
    /\ to_convert # <<>>
    /\ \E obj \in Objects(Head(to_convert)) :
         members_data' = Append(members_data,
                                [obj |-> obj, data |-> class_to_data(obj)])
    /\ to_convert' = Tail(to_convert)
    /\ UNCHANGED <<module_ns, module_file, module_doc, cpc, classes, functions,
                   documentable, page, exclude_private>>
    /\ UNCHANGED otherThanConvert

\* file_to_tsx, lines 165-193.
RenderModule ==
    /\ cpc = "members"
    /\ to_convert = <<>>
    /\ page' = json_module(N_a, module_description(module_doc), members_data)
    /\ cpc' = "rendered"
    /\ UNCHANGED <<module_ns, module_file, module_doc, classes, functions,
                   documentable, to_convert, members_data, exclude_private>>
    /\ UNCHANGED otherThanConvert

ConvertInit ==
    /\ module_ns \in SUBSET MemberNames
    /\ module_file \in {file_of([root |-> "package"], N_a),
                        file_of([root |-> "package"], N_pkg)}
    /\ module_doc \in DocVariants
    /\ cpc = "start"
    /\ classes = <<>>
    /\ functions = <<>>
    /\ documentable = "unknown"
    /\ to_convert = <<>>
    /\ members_data = <<>>
    /\ page = {}

ConvertIdle ==
    /\ module_ns = {}
    /\ module_file = None
    /\ module_doc = "empty"
    /\ cpc = "idle"
    /\ classes = <<>>
    /\ functions = <<>>
    /\ documentable = "unknown"
    /\ to_convert = <<>>
    /\ members_data = <<>>
    /\ page = {}

ConvertNext == CollectMembers \/ CheckDocumentable \/ ConvertMember \/ RenderModule

\* --------------------------------------------- the signature extractor
\* The parameters a signature is drawn from, in an order Python accepts:
\*   (a: int, /, x, y: str = 's', *args, b=1, **kw)
ParameterPool ==
    <<[name |-> <<"a">>, kind |-> "POSITIONAL_ONLY",
       annotation |-> <<"i", "n", "t">>, default |-> None],
      [name |-> <<"x">>, kind |-> "POSITIONAL_OR_KEYWORD",
       annotation |-> None, default |-> None],
      [name |-> <<"y">>, kind |-> "POSITIONAL_OR_KEYWORD",
       annotation |-> <<"s", "t", "r">>, default |-> <<"'", "s", "'">>],
      [name |-> <<"a", "r", "g", "s">>, kind |-> "VAR_POSITIONAL",
       annotation |-> None, default |-> None],
      [name |-> <<"b">>, kind |-> "KEYWORD_ONLY",
       annotation |-> None, default |-> <<"1">>],
      [name |-> <<"k", "w">>, kind |-> "VAR_KEYWORD",
       annotation |-> None, default |-> None]>>

RECURSIVE SubSeqs(_)
\* Every signature that declares some of the pool's parameters, in its order.
SubSeqs(q) ==
    IF q = <<>> THEN {<<>>}
    ELSE LET rest == SubSeqs(Tail(q))
         IN rest \cup {<<Head(q)>> \o t : t \in rest}

\* The objects the extractor is given: the function bar or the class Foo,
\* declared with any of these signatures; inspect.signature raises ValueError
\* for a class only (one that inherits a constructor without metadata).
SignatureObjects ==
    [name : {bar}, signature : {"ok"}, parameters : SubSeqs(ParameterPool)]
    \cup [name : {Foo}, signature : {"ok", "ValueError"},
          parameters : SubSeqs(ParameterPool)]

\* str(param) of inspect.Parameter
param_str(q) ==
    LET annotated == IF Truthy(q.annotation)
                     THEN q.name \o <<":", " ">> \o q.annotation
                     ELSE q.name
        formatted == IF ~Truthy(q.default) THEN annotated
                     ELSE IF Truthy(q.annotation)
                     THEN annotated \o <<" ", "=", " ">> \o q.default
                     ELSE annotated \o <<"=">> \o q.default
    IN IF q.kind = "VAR_POSITIONAL" THEN <<"*">> \o formatted
       ELSE IF q.kind = "VAR_KEYWORD" THEN <<"*", "*">> \o formatted
       ELSE formatted

RECURSIVE render_params(_, _, _)
\* str(sig) of inspect.Signature: the parameters with the "/" and "*" marks.
render_params(params, pos_only_separator, kw_only_separator) ==
    IF params = <<>>
    THEN (IF pos_only_separator THEN << <<"/">> >> ELSE <<>>)
    ELSE LET q == Head(params)
             slash == q.kind # "POSITIONAL_ONLY" /\ pos_only_separator
             star == q.kind = "KEYWORD_ONLY" /\ kw_only_separator
         IN (IF slash THEN << <<"/">> >> ELSE <<>>)
            \o (IF star THEN << <<"*">> >> ELSE <<>>)
            \o <<param_str(q)>>
            \o render_params(Tail(params), q.kind = "POSITIONAL_ONLY",
                             kw_only_separator /\ ~star
                                 /\ q.kind # "VAR_POSITIONAL")

RECURSIVE join_str(_, _)
\* sep.join(parts) for a separator of several characters
join_str(parts, sep) ==
    IF parts = <<>> THEN <<>>
    ELSE IF Len(parts) = 1 THEN parts[1]
    ELSE parts[1] \o sep \o join_str(Tail(parts), sep)

\* str(sig): "(...)" and the return annotation when there is one.
signature_str(obj) ==
    <<"(">> \o join_str(render_params(obj.parameters, FALSE, TRUE),
                        <<",", " ">>)
    \o <<")">>
    \o (IF Truthy(ReturnAnnotation(obj.name))
        THEN <<" ", "-", ">", " ">> \o ReturnAnnotation(obj.name) ELSE <<>>)

\* docstring_2tsx/utils/signature_formatter.py, format_signature(obj)
format_signature_str(obj) ==
    IF obj.signature = "ValueError" THEN obj.name
    ELSE obj.name \o signature_str(obj)

\* get_signature_params(obj) is called.
ExtractParams ==
    /\ spc = "input"
    /\ sig_params = None
    /\ sig_params' = get_signature_params(sig_obj)
    /\ UNCHANGED <<sig_obj, sig_text, spc>>
    /\ UNCHANGED otherThanSignature

\* format_signature(obj) is called.
RenderSignature ==
    /\ spc = "input"
    /\ sig_text = None
    /\ sig_text' = format_signature_str(sig_obj)
    /\ UNCHANGED <<sig_obj, sig_params, spc>>
    /\ UNCHANGED otherThanSignature

SignatureInit ==
    /\ sig_obj \in SignatureObjects
    /\ sig_params = None
    /\ sig_text = None
    /\ spc = "input"

SignatureIdle ==
    /\ sig_obj = [name |-> bar, signature |-> "ok", parameters |-> <<>>]
    /\ sig_params = None
    /\ sig_text = None
    /\ spc = "idle"

SignatureNext == ExtractParams \/ RenderSignature

\* ---------------------------------------------------------- specifications
vars == <<runVars, textVars, convertVars, sigVars>>

RunIdle ==
    /\ world = [root |-> "package", sub |-> "package", initDir |-> FALSE,
                alias |-> "none", a |-> "module"]
    /\ pc = "idle"
    /\ modules_to_process = <<>>
    /\ modules_to_explore = <<>>
    /\ explored_modules = {}
    /\ module_groups = <<>>
    /\ files = {}
    /\ log = <<>>
    /\ handled = <<>>
    /\ failures = 0

Init == RunInit /\ TextIdle /\ ConvertIdle /\ SignatureIdle

Next == RunNext

\* One run of package_to_structure over one package.
Spec == Init /\ [][Next]_vars

InitText ==
    TextInit /\ RunIdle /\ exclude_private = FALSE /\ ConvertIdle /\ SignatureIdle

\* The Markdown renderer's text helpers, applied to one text.
SpecText == InitText /\ [][TextNext]_vars

InitConvert ==
    /\ ConvertInit /\ RunIdle /\ exclude_private \in BOOLEAN /\ TextIdle
    /\ SignatureIdle

\* file_to_tsx over one module, and has_documentable_members of that module.
SpecConvert == InitConvert /\ [][ConvertNext]_vars

InitSignature ==
    /\ SignatureInit /\ RunIdle /\ exclude_private = FALSE /\ TextIdle
    /\ ConvertIdle

\* get_signature_params and format_signature applied to one object.
SpecSignature == InitSignature /\ [][SignatureNext]_vars

\* ------------------------------------------------- claims about the run
\* A call of process_module_file that ended in an exception.
Failed(h) == h.logged \/ h.raised # "none"

\* The segments of the dotted name the file was processed under.
NameParts(h) == split(min_by_len(h.modules).module_name, ".")

\* The orders in which the entries of a list can come.
Reorderings(s) ==
    LET n == Len(s)
        bij == {f \in [1..n -> 1..n] : \A i, j \in 1..n : f[i] = f[j] => i = j}
    IN {[i \in 1..n |-> s[f[i]]] : f \in bij}

HasInitSegment(parts) == \E k \in 1..Len(parts) : parts[k] = dunder_init

\* C1: when converting one module file fails with any exception, the failure
\* is logged, that file gets no page, and every other module file of the run
\* is still processed and has its page written.
C1_FailureSkipsOnlyThatFile ==
    (pc = "done" /\ handled # <<>>) =>
        /\ module_groups = <<>>
        /\ \A i \in DOMAIN handled :
             LET h == handled[i]
             IN /\ Failed(h) => h.path = NoPath /\ log # <<>>
                /\ (~Failed(h) /\ h.file_name # dunder_init) =>
                       \E f \in files : f.path = h.path

\* C2: a root package that cannot be imported, has no __file__ or has an
\* empty/None __file__ is logged and nothing is walked, processed or written.
C2_UnlocatableRootAborts ==
    world.root \in {"importfail", "nofile", "namespace"} =>
        /\ modules_to_process = <<>>
        /\ explored_modules = {}
        /\ handled = <<>>
        /\ files = {}
        /\ pc = "done" => Len(log) = 1

\* C3 as stated: every module pkg.s1.....sn handed to process_module_file
\* without a failure gets the page R/s1/.../sn/page.tsx, __init__ segments
\* dropped.
C3_EveryModuleGetsItsPath ==
    \A i \in DOMAIN handled :
        LET h == handled[i]
            parts == NameParts(h)
        IN (~Failed(h) /\ Len(parts) > 1) =>
               h.path = OutputRoot
                        \o SelectSeq(Tail(parts), LAMBDA x : x # dunder_init)
                        \o <<page_tsx>>

\* C3, amended: a module pkg.s1.....sn (n >= 1) whose file stem is sn and none
\* of whose segments is __init__ gets the page R/s1/.../sn/page.tsx; a file
\* whose stem is __init__ is given no path, converted by nobody and written
\* nowhere.
C3_OutputPath ==
    \A i \in DOMAIN handled :
        LET h == handled[i]
            parts == NameParts(h)
        IN ~Failed(h) =>
               IF h.file_name = dunder_init
               THEN h.path = NoPath /\ h.calls = <<>> /\ ~h.ret
               ELSE (/\ Len(parts) > 1
                     /\ parts[Len(parts)] = h.file_name
                     /\ ~HasInitSegment(parts)) =>
                        /\ h.path = OutputRoot \o Tail(parts) \o <<page_tsx>>
                        /\ \E f \in files : f.path = h.path

\* C3's case: pkg.sub.mod was written to /out/sub/mod/page.tsx and the
\* __init__.py of pkg.sub was passed over.
C3_Witness ==
    /\ \E i \in DOMAIN handled :
          /\ handled[i].calls # <<>>
          /\ handled[i].calls[1].module_name = N_sub_mod
          /\ handled[i].path = <<<<"o", "u", "t">>, sub, mod, page_tsx>>
    /\ \E i \in DOMAIN handled :
          /\ handled[i].file_name = dunder_init
          /\ handled[i].modules[1].module_name = N_sub

\* C4 as stated: two module files of one run never write the same page.
C4_NoTwoFilesShareAPage ==
    \A i, j \in DOMAIN handled :
        (i # j /\ handled[i].path # NoPath /\ handled[j].path # NoPath) =>
            handled[i].path # handled[j].path

\* C4, amended: two module files of one run, neither processed under a dotted
\* name with an __init__ segment, never write the same page.
C4_DistinctPages ==
    \A i, j \in DOMAIN handled :
        (/\ i # j
         /\ handled[i].path # NoPath
         /\ handled[j].path # NoPath
         /\ ~HasInitSegment(NameParts(handled[i]))
         /\ ~HasInitSegment(NameParts(handled[j]))) =>
            /\ handled[i].path # handled[j].path
            /\ handled[i].file_path # handled[j].file_path

\* C4's case: pkg/a.py and pkg/sub/a.py, of the same stem, are both written.
C4_Witness ==
    \E i, j \in DOMAIN handled :
        /\ handled[i].path # NoPath /\ handled[j].path # NoPath
        /\ handled[i].file_path = file_of(world, N_a)
        /\ handled[j].file_path = file_of(world, N_sub_a)

\* C10 as stated: the converter runs once per processed file, under the
\* shortest alias, whatever the order of the aliases.
C10_ShortestWhateverTheOrder ==
    \A i \in DOMAIN handled :
        LET h == handled[i]
        IN h.calls # <<>> =>
               /\ Len(h.calls) = 1
               /\ \A k \in DOMAIN h.modules :
                      Len(h.calls[1].module_name) <= Len(h.modules[k].module_name)
               /\ \A r \in Reorderings(h.modules) :
                      process_module_file(h.file_path, r, OutputRoot, NoFault).calls
                          = h.calls

\* C10, amended: the converter runs once per processed file, under the first
\* discovered of the aliases of least length; the order of the aliases does
\* not matter when only one alias has the least length.
C10_FirstShortestAlias ==
    \A i \in DOMAIN handled :
        LET h == handled[i]
            least(e) == \A k \in DOMAIN h.modules :
                            Len(e.module_name) <= Len(h.modules[k].module_name)
        IN /\ \A j \in DOMAIN handled : handled[j].file_path = h.file_path => j = i
           /\ \A k \in DOMAIN h.modules :
                  file_of(world, h.modules[k].module) = h.file_path
           /\ h.calls # <<>> =>
               /\ Len(h.calls) = 1
               /\ \E k \in DOMAIN h.modules :
                      /\ h.calls[1] = h.modules[k]
                      /\ least(h.modules[k])
                      /\ \A j \in 1..(k - 1) : ~least(h.modules[j])
               /\ Cardinality({k \in DOMAIN h.modules : least(h.modules[k])}) = 1 =>
                      \A r \in Reorderings(h.modules) :
                          process_module_file(h.file_path, r, OutputRoot, NoFault).calls
                              = h.calls

\* C10's case: the file of pkg.ext is converted as pkg.m, the shorter alias
\* that was discovered second.
C10_Witness ==
    \E i \in DOMAIN handled :
        /\ Len(handled[i].modules) = 2
        /\ handled[i].calls = <<handled[i].modules[2]>>
        /\ handled[i].calls[1].module_name = N_m

\* ------------------------------------------ claims about the text helpers
Special == {"<", ">", "="}

\* The number of special characters among the first i of s.
SpecialsUpTo(s, i) == Cardinality({k \in 1..i : s[k] \in Special})

\* s holds part as a substring.
Contains(s, part) ==
    \E i \in 0..(Len(s) - Len(part)) : SubSeq(s, i + 1, i + Len(part)) = part

\* C8: escape_special puts a backslash before every '<', '>' and '=' and
\* leaves every other character unchanged and in place; None gives None, ""
\* gives "", and a text without these characters comes back unchanged, also
\* from a second pass.
C8_EscapeSpecial ==
    /\ tpc = "escaped" =>
          IF text_in = None THEN text_out = None
          ELSE /\ Len(text_out) = Len(text_in) + SpecialsUpTo(text_in, Len(text_in))
               /\ \A i \in 1..Len(text_in) :
                      LET p == i + SpecialsUpTo(text_in, i)
                      IN /\ text_out[p] = text_in[i]
                         /\ text_in[i] \in Special => text_out[p - 1] = "\\"
               /\ text_in = <<>> => text_out = <<>>
               /\ SpecialsUpTo(text_in, Len(text_in)) = 0 => text_out = text_in
               /\ \A t \in EscapeTests : t.input = text_in => text_out = t.expected
    /\ (/\ tpc = "escaped twice"
        /\ text_in # None
        /\ SpecialsUpTo(text_in, Len(text_in)) = 0) => text_out = text_in

\* C8's case: "multiple <= signs =>" was escaped to the text the test expects.
C8_Witness ==
    /\ tpc = "escaped"
    /\ text_in = <<"m", "u", "l", "t", "i", "p", "l", "e", " ", "<", "=", " ", "s", "i", "g", "n", "s", " ", "=", ">">>
    /\ text_out = <<"m", "u", "l", "t", "i", "p", "l", "e", " ", "\\", "<", "\\", "=", " ", "s", "i", "g", "n", "s", " ", "\\", "=", "\\", ">">>

\* C9: format_section_content puts the content, verbatim, between an opening
\* fence that is tagged python exactly for the section Examples and a closing
\* bare fence.
C9_FormatSection ==
    tpc = "formatted" =>
        LET lines == split(text_out, "\n")
            n == Len(lines)
        IN /\ n >= 3
           /\ lines[1] = (IF section = Examples THEN fence \o python ELSE fence)
           /\ lines[n] = fence
           /\ join(SubSeq(lines, 2, n - 1), "\n") = text_in
           /\ \A t \in FormatTests :
                  (t.section = section /\ t.content = text_in) =>
                      Contains(text_out, t.fragment)

\* C9's case: the Notes content of the test, which holds '<' and '>', stands
\* unescaped under a bare fence.
C9_Witness ==
    /\ tpc = "formatted"
    /\ section = Notes
    /\ text_in = <<"T", "h", "i", "s", " ", "i", "s", " ", "a", " ", "n", "o", "t", "e", " ", "w", "i", "t", "h", " ", "<", "s", "p", "e", "c", "i", "a", "l", ">", " ", "c", "h", "a", "r", "s">>
    /\ Contains(text_out, <<backtick, backtick, backtick, "\n", "T", "h", "i", "s", " ", "i", "s", " ", "a", " ", "n", "o", "t", "e">>)
    /\ ~Contains(text_out, <<"\\", "<">>)

\* ---------------------------------------------- claims about the converter
\* The members collect_module_members returned.
Collected == seq_range(classes) \cup seq_range(functions)

\* C5: the collector returns exactly the classes and functions defined in the
\* module, leaves out the names starting with an underscore if and only if
\* exclude_private is configured, and returns a member exactly when
\* has_documentable_members finds the module documentable.
C5_CollectorHonoursExcludePrivate ==
    cpc \in {"members", "rendered"} =>
        /\ Collected =
               {n \in module_ns :
                    /\ isclass(n) \/ isfunction(n)
                    /\ has_module_attr(n)
                    /\ module_of(n) = N_a
                    /\ exclude_private => ~startswith(n, "_")}
        /\ documentable # "unknown" => (Collected # {} <=> documentable = "yes")

\* The names of a list of parameters, in its order.
NamesOf(params) == [i \in 1..Len(params) |-> params[i].name]

\* The names the Args section of the member's docstring documents.
Documented(obj) == {d.name : d \in seq_range(parsed_docstring(obj).Args)}

C7_AbsentFieldsDoNotAppear ==
    cpc = "rendered" =>
        /\ \A f \in page : f.json \notin {json_null, json_string(<<>>)}
        /\ \A m \in DOMAIN members_data :
               LET parsed == parsed_docstring(members_data[m].obj)
               IN (parsed.has_description /\ parsed.Description # <<>>) =>
                      Field(m, "member", 0, "description",
                            json_string(parsed.Description)) \in page

\* The position of a name among the parameters declared.
DeclaredAt(obj, param_name) ==
    CHOOSE i \in 1..Len(obj.parameters) : obj.parameters[i].name = param_name

Variadic(q) == q.kind \in {"VAR_POSITIONAL", "VAR_KEYWORD"}

\* C11: get_signature_params returns the names of the parameters of the
\* object's signature, in declaration order, with every *args and **kwargs
\* parameter removed and nothing else removed; when inspect.signature cannot
\* determine the signature (ValueError) it returns the empty list, and
\* format_signature(obj) then returns the bare name of the object.
C11_SignatureExtractor ==
    /\ sig_params # None /\ sig_obj.signature = "ok" =>
          /\ seq_range(sig_params) =
                 {q.name : q \in {r \in seq_range(sig_obj.parameters) :
                                      ~Variadic(r)}}
          /\ \A i, j \in 1..Len(sig_params) :
                 i < j => DeclaredAt(sig_obj, sig_params[i])
                              < DeclaredAt(sig_obj, sig_params[j])
    /\ sig_params # None /\ sig_obj.signature = "ValueError" =>
          sig_params = <<>>
    /\ sig_text # None /\ sig_obj.signature = "ValueError" =>
          sig_text = sig_obj.name

\* A class whose signature cannot be determined, declared with parameters,
\* for which both functions have answered.
C11_Witness ==
    /\ sig_obj.signature = "ValueError"
    /\ Len(sig_obj.parameters) = Len(ParameterPool)
    /\ sig_params = <<>>
    /\ sig_text = Foo

RECURSIVE Below(_, _, _, _)
\* The modules below the package m (named name) that the tree holds and that
\* can be imported and located: each submodule that is not filtered out and
\* whose import succeeds, with, for a subpackage, what is below it.
Below(w, xp, m, name) ==
    IF ~has_path(w, m) THEN {}
    ELSE LET items == iter_modules(w, m, name \o <<".">>)
             of(it) ==
                 LET imp == import_module(w, it.module_name)
                 IN IF xp /\ is_private_name(it.module_name) THEN {}
                    ELSE IF ~imp.ok THEN {}
                    ELSE IF ~(has_file_attr(w, imp.module)
                              /\ Truthy(file_of(w, imp.module))) THEN {}
                    ELSE {it.module_name}
                         \cup (IF it.is_pkg
                               THEN Below(w, xp, imp.module, it.module_name)
                               ELSE {})
         IN UNION {of(items[i]) : i \in 1..Len(items)}

\* The walk has been started: the root was imported and has a __file__.
WalkStarted == pc \notin {"idle", "start"} /\ world.root \notin {"importfail", "nofile"}

\* The walk is over.
WalkOver == WalkStarted /\ pc \in {"process", "done"}

WalkSafe ==
    /\ \A i, j \in 1..Len(modules_to_process) :
           i # j => modules_to_process[i].module_name
                        # modules_to_process[j].module_name
    /\ \A i, j \in 1..Len(modules_to_explore) :
           i # j => modules_to_explore[i].module_name
                        # modules_to_explore[j].module_name
    /\ \A i \in 1..Len(modules_to_explore) :
           modules_to_explore[i].module_name \notin explored_modules
    /\ WalkOver =>
           {e.module_name : e \in seq_range(modules_to_process)} =
               (IF Truthy(file_of(world, N_pkg)) THEN {N_pkg} ELSE {})
               \cup Below(world, exclude_private, N_pkg, N_pkg)

\* The packages of the tree, and what the walk has left to do: the packages
\* not expanded yet weigh more than any queue.
Packages == {N_pkg, N_sub, N_init}
WalkMeasure ==
    Cardinality(Packages \ explored_modules) * (Cardinality(Packages) + 1)
    + Len(modules_to_explore)

\* C12: the walk of collect_package_modules ends (every turn of its loop
\* brings what it has left to do down), no package is expanded twice
\* (a name in the queue is there once and has not been expanded), the list
\* holds no module name twice, and when it is over the list holds exactly the
\* root (when located) and every module below it that is not filtered out and
\* whose import succeeds, with what is below it: a submodule whose import
\* fails is left out with its subtree, and its siblings are still discovered.
C12_WalkEndsAndDiscoversSiblings ==
    /\ []WalkSafe
    /\ [][(pc = "collect" /\ modules_to_explore # <<>>) =>
              WalkMeasure' < WalkMeasure]_vars

====
